---- MODULE Spec2Model ----
(***************************************************************************)
(* Model of scripts/create_icon_simple.py: the icon generator that paints  *)
(* a gradient, composites a flame overlay, writes ten PNG renditions into  *)
(* icon_temp/AppIcon.iconset, runs iconutil and removes the staging tree.  *)
(* The working directory persists between runs of the script.              *)
(***************************************************************************)
EXTENDS Integers, Sequences, FiniteSets, TLC

\* ---------------------------------------------------------------- bounds
MaxRuns == 3          \* consecutive runs of the script in one directory
MaxToolExit == 2      \* iconutil exit statuses range over 0..MaxToolExit

\* ------------------------------------------------------- program constants
size == 1024
StartColor == <<16, 185, 129>>
EndColor == <<6, 182, 212>>

\* sizes with the 32x32@2x entry carrying the 1x dimension
sizes_wrong_dim ==
  << <<16, "16x16">>, <<32, "16x16@2x">>, <<32, "32x32">>, <<32, "32x32@2x">>,
     <<128, "128x128">>, <<256, "128x128@2x">>, <<256, "256x256">>,
     <<512, "256x256@2x">>, <<512, "512x512">>, <<1024, "512x512@2x">> >>

sizes ==
  << <<16, "16x16">>, <<32, "16x16@2x">>, <<32, "32x32">>, <<64, "32x32@2x">>,
     <<128, "128x128">>, <<256, "128x128@2x">>, <<256, "256x256">>,
     <<512, "256x256@2x">>, <<512, "512x512">>, <<1024, "512x512@2x">> >>

\* --------------------------------------------------------- pure functions
\* Python int(): truncation toward zero of the rational n / d, d > 0
Trunc(n, d) == IF n >= 0 THEN n \div d ELSE -((-n) \div d)

\* int(s + (e - s) * (y / size)).  size is a power of two and the operands
\* are small integers, so the float expression is exact and equals the
\* rational (s * size + (e - s) * y) / size.
Interp_swapped(s, e, y) == Trunc(e * size + (s - e) * y, size)

Interp(s, e, y) == Trunc(s * size + (e - s) * y, size)

\* the scanline colours painted by the loop of create_gradient_icon
GradientRows ==
  [y \in 0..(size - 1) |->
     <<Interp(StartColor[1], EndColor[1], y),
       Interp(StartColor[2], EndColor[2], y),
       Interp(StartColor[3], EndColor[3], y)>>]

NoImage == [size |-> 0, gradient |-> <<>>, flame |-> FALSE]

\* f"icon_{name}.png"
FileName(name) == <<"icon_", name, ".png">>

\* base_icon.resize((dim, dim), LANCZOS) followed by PNG encoding: the file
\* holds an image of dim x dim pixels, resampled from an image of img.size
Resize(img, dim) == [dim |-> dim, from |-> img.size, flame |-> img.flame]

Truncated == [dim |-> 0, from |-> 0, flame |-> FALSE]

\* the for loop over sizes ends after the last entry
LoopFinished_short(k) == k > Len(sizes) - 1

LoopFinished(k) == k > Len(sizes)

\* Path.mkdir() without exist_ok: FileExistsError on an existing directory
Mkdir_strict(exists) == IF exists THEN "FileExistsError" ELSE "ok"

\* Path.mkdir(exist_ok=True): an existing directory is accepted
Mkdir(exists) == "ok"

\* except subprocess.CalledProcessError
Caught_any(exc) == TRUE

Caught(exc) == exc = "CalledProcessError"

\* sys.exit(0 if success else 1)
ExitStatus_swapped(s) == IF s = "True" THEN 1 ELSE 0

ExitStatus(s) == IF s = "True" THEN 0 ELSE 1

\* shutil.rmtree(icon_dir): the whole staging tree goes
Rmtree_inner(d) == [d EXCEPT !.iconset = FALSE, !.png = <<>>]

Rmtree(d) == [d EXCEPT !.icon_temp = FALSE, !.iconset = FALSE, !.png = <<>>]

EmptyDir == [icon_temp |-> FALSE, iconset |-> FALSE, png |-> <<>>, icns |-> FALSE]

\* entries of the working directory
Listing(d) == (IF d.icon_temp THEN {"icon_temp"} ELSE {})
                \cup (IF d.icns THEN {"AppIcon.icns"} ELSE {})

\* resized.save(path): create or overwrite one file of the iconset
WriteFile(d, fname, content) ==
  [d EXCEPT !.png = [n \in (DOMAIN d.png) \cup {fname} |->
                       IF n = fname THEN content ELSE d.png[n]]]

Step(op, arg) == [op |-> op, arg |-> arg]

\* ------------------------------------------------------------------ state
VARIABLES
  pc,         \* next statement of the running script
  run,        \* ordinal of the current run
  fs,         \* the working directory
  startFs,    \* the working directory as the current run found it
  base_icon,  \* local base_icon of create_iconset
  i,          \* position of the for loop in sizes
  log,        \* operations completed by the current run, in order
  toolExit,   \* exit status of iconutil in this run, -1 before it exits
  success,    \* return value of create_iconset: "none", "True", "False"
  status,     \* exit status of the process, -1 while it runs
  fault       \* exception that escaped create_iconset, "none" otherwise

vars == <<pc, run, fs, startFs, base_icon, i, log, toolExit, success, status, fault>>

Init ==
  /\ pc = "gradient"
  /\ run = 1
  /\ fs = EmptyDir
  /\ startFs = EmptyDir
  /\ base_icon = NoImage
  /\ i = 1
  /\ log = <<>>
  /\ toolExit = -1
  /\ success = "none"
  /\ status = -1
  /\ fault = "none"

\* an exception nobody catches: traceback, interpreter exits with status 1
Uncaught(exc) ==
  /\ pc' = "exited"
  /\ fault' = exc
  /\ status' = 1

\* create_gradient_icon, lines 19-29
BuildGradient ==
  /\ pc = "gradient"
  /\ base_icon' = [size |-> size, gradient |-> GradientRows, flame |-> FALSE]
  /\ log' = Append(log, Step("create_gradient", ""))
  /\ pc' = "overlay"
  /\ UNCHANGED <<run, fs, startFs, i, toolExit, success, status, fault>>

\* create_gradient_icon, lines 31-63
ApplyOverlay ==
  /\ pc = "overlay"
  /\ base_icon' = [base_icon EXCEPT !.flame = TRUE]
  /\ log' = Append(log, Step("overlay", ""))
  /\ pc' = "mkdir_icon_temp"
  /\ UNCHANGED <<run, fs, startFs, i, toolExit, success, status, fault>>

\* lines 74-75
MkdirIconTemp ==
  /\ pc = "mkdir_icon_temp"
  /\ IF Mkdir(fs.icon_temp) = "ok"
       THEN /\ fs' = [fs EXCEPT !.icon_temp = TRUE]
            /\ log' = Append(log, Step("mkdir", "icon_temp"))
            /\ pc' = "mkdir_iconset"
            /\ UNCHANGED <<status, fault>>
       ELSE /\ Uncaught(Mkdir(fs.icon_temp))
            /\ UNCHANGED <<fs, log>>
  /\ UNCHANGED <<run, startFs, base_icon, i, toolExit, success>>

\* lines 77-78
MkdirIconset ==
  /\ pc = "mkdir_iconset"
  /\ IF Mkdir(fs.iconset) = "ok"
       THEN /\ fs' = [fs EXCEPT !.iconset = TRUE]
            /\ log' = Append(log, Step("mkdir", "AppIcon.iconset"))
            /\ pc' = IF LoopFinished(i) THEN "iconutil" ELSE "loop"
            /\ UNCHANGED <<status, fault>>
       ELSE /\ Uncaught(Mkdir(fs.iconset))
            /\ UNCHANGED <<fs, log>>
  /\ UNCHANGED <<run, startFs, base_icon, i, toolExit, success>>

\* a variant of the loop body that keeps the resized image as the new base
SavePng_cascade ==
  /\ pc = "loop"
  /\ fs' = WriteFile(fs, FileName(sizes[i][2]), Resize(base_icon, sizes[i][1]))
  /\ base_icon' = [base_icon EXCEPT !.size = sizes[i][1]]
  /\ log' = Append(log, Step("save", sizes[i][2]))
  /\ i' = i + 1
  /\ pc' = IF LoopFinished(i + 1) THEN "iconutil" ELSE "loop"
  /\ UNCHANGED <<run, startFs, toolExit, success, status, fault>>

\* one iteration of the loop, lines 95-98
SavePng ==
  /\ pc = "loop"
  /\ fs' = WriteFile(fs, FileName(sizes[i][2]), Resize(base_icon, sizes[i][1]))
  /\ log' = Append(log, Step("save", sizes[i][2]))
  /\ i' = i + 1
  /\ pc' = IF LoopFinished(i + 1) THEN "iconutil" ELSE "loop"
  /\ UNCHANGED <<run, startFs, base_icon, toolExit, success, status, fault>>

\* line 98 raising OSError: the target is left as it was, or left truncated
SavePngFault ==
  /\ pc = "loop"
  /\ \E partial \in BOOLEAN :
       fs' = IF partial THEN WriteFile(fs, FileName(sizes[i][2]), Truncated) ELSE fs
  /\ Uncaught("OSError")
  /\ UNCHANGED <<run, startFs, base_icon, i, log, toolExit, success>>

\* lines 103-108: iconutil runs to completion with some exit status
RunIconutil ==
  /\ pc = "iconutil"
  /\ \E code \in 0..MaxToolExit :
       /\ toolExit' = code
       /\ log' = Append(log, Step("iconutil", "AppIcon.icns"))
       /\ IF code = 0
            THEN /\ fs' = [fs EXCEPT !.icns = TRUE]
                 /\ pc' = "rmtree"
                 /\ UNCHANGED <<status, fault>>
            ELSE /\ fs' = fs
                 /\ IF Caught("CalledProcessError")
                      THEN pc' = "except" /\ UNCHANGED <<status, fault>>
                      ELSE Uncaught("CalledProcessError")
  /\ UNCHANGED <<run, startFs, base_icon, i, success>>

\* lines 103-108: iconutil cannot be started (not installed)
IconutilLaunchFault ==
  /\ pc = "iconutil"
  /\ IF Caught("FileNotFoundError")
       THEN pc' = "except" /\ UNCHANGED <<status, fault>>
       ELSE Uncaught("FileNotFoundError")
  /\ UNCHANGED <<run, fs, startFs, base_icon, i, log, toolExit, success>>

\* a handler that starts the tool again
HandleFailure_retry ==
  /\ pc = "except"
  /\ pc' = "iconutil"
  /\ UNCHANGED <<run, fs, startFs, base_icon, i, log, toolExit, success, status, fault>>

\* a handler that removes the staging tree before returning
HandleFailure_cleanup ==
  /\ pc = "except"
  /\ fs' = Rmtree(fs)
  /\ success' = "False"
  /\ pc' = "exit"
  /\ UNCHANGED <<run, startFs, base_icon, i, log, toolExit, status, fault>>

\* lines 108-110
HandleFailure ==
  /\ pc = "except"
  /\ success' = "False"
  /\ pc' = "exit"
  /\ UNCHANGED <<run, fs, startFs, base_icon, i, log, toolExit, status, fault>>

\* lines 112-114
Cleanup ==
  /\ pc = "rmtree"
  /\ fs' = Rmtree(fs)
  /\ log' = Append(log, Step("rmtree", "icon_temp"))
  /\ pc' = "return"
  /\ UNCHANGED <<run, startFs, base_icon, i, toolExit, success, status, fault>>

\* lines 116-123
ReturnTrue ==
  /\ pc = "return"
  /\ success' = "True"
  /\ pc' = "exit"
  /\ UNCHANGED <<run, fs, startFs, base_icon, i, log, toolExit, status, fault>>

\* line 127
Exit ==
  /\ pc = "exit"
  /\ status' = ExitStatus(success)
  /\ pc' = "exited"
  /\ UNCHANGED <<run, fs, startFs, base_icon, i, log, toolExit, success, fault>>

\* the script is started again in the same working directory, lines 125-126
NextRun ==
  /\ pc = "exited"
  /\ run < MaxRuns
  /\ run' = run + 1
  /\ startFs' = fs
  /\ pc' = "gradient"
  /\ base_icon' = NoImage
  /\ i' = 1
  /\ log' = <<>>
  /\ toolExit' = -1
  /\ success' = "none"
  /\ status' = -1
  /\ fault' = "none"
  /\ UNCHANGED fs

Next ==
  \/ BuildGradient
  \/ ApplyOverlay
  \/ MkdirIconTemp
  \/ MkdirIconset
  \/ SavePng
  \/ SavePngFault
  \/ RunIconutil
  \/ IconutilLaunchFault
  \/ HandleFailure
  \/ Cleanup
  \/ ReturnTrue
  \/ Exit
  \/ NextRun

Spec == Init /\ [][Next]_vars

\* ------------------------------------------------------------ properties
\* the Icon Size Table as the specification prints it
TableNames ==
  <<"16x16", "16x16@2x", "32x32", "32x32@2x", "128x128", "128x128@2x",
    "256x256", "256x256@2x", "512x512", "512x512@2x">>

TableDims == <<16, 32, 32, 64, 128, 256, 256, 512, 512, 1024>>

TableFiles == {<<"icon_", TableNames[k], ".png">> : k \in 1..10}

IsPrefix(s, t) == Len(s) <= Len(t) /\ \A k \in 1..Len(s) : s[k] = t[k]

Saves(l) == SelectSeq(l, LAMBDA e : e.op = "save")

NumIconutil(l) == Len(SelectSeq(l, LAMBDA e : e.op = "iconutil"))

HasOp(l, op) == \E k \in 1..Len(l) : l[k].op = op

Abs(x) == IF x < 0 THEN -x ELSE x

\* the staging tree holds exactly the ten table files, each of its table size
TenPngs(d) ==
  /\ d.icon_temp /\ d.iconset
  /\ DOMAIN d.png = TableFiles
  /\ Cardinality(DOMAIN d.png) = 10
  /\ \A k \in 1..10 : d.png[<<"icon_", TableNames[k], ".png">>].dim = TableDims[k]

\* C1: a non-zero exit of iconutil makes create_iconset return False with no
\* exception escaping and the process exit with status 1; a zero exit makes
\* it return True and the process exit with status 0.
C1_ExitStatus ==
  /\ toolExit > 0 => /\ fault = "none"
                     /\ pc \in {"except", "exit", "exited"}
                     /\ (pc \in {"exit", "exited"} => success = "False")
                     /\ (pc = "exited" => status = 1)
  /\ toolExit = 0 => /\ fault = "none"
                     /\ pc \in {"rmtree", "return", "exit", "exited"}
                     /\ (pc \in {"exit", "exited"} => success = "True")
                     /\ (pc = "exited" => status = 0)

C1_Witness ==
  /\ pc = "exited" /\ toolExit > 0 /\ success = "False" /\ status = 1
  /\ run > 1 /\ startFs.icns

\* C2: when iconutil succeeded and create_iconset has returned, nothing of
\* icon_temp exists; a run started in an empty directory ends with
\* AppIcon.icns as the only entry of the working directory.
C2_CleanAfterSuccess ==
  /\ (toolExit = 0 /\ success = "True") =>
        ~fs.icon_temp /\ ~fs.iconset /\ DOMAIN fs.png = {}
  /\ (toolExit = 0 /\ pc = "exited" /\ startFs = EmptyDir) =>
        Listing(fs) = {"AppIcon.icns"}

C2_Witness ==
  /\ pc = "exited" /\ startFs = EmptyDir /\ toolExit = 0 /\ success = "True"
  /\ Listing(fs) = {"AppIcon.icns"}

\* C3: when iconutil exited non-zero and create_iconset has returned, the
\* staging tree and its ten PNG files are still there and rmtree never ran.
C3_StagingKeptOnFailure ==
  (toolExit > 0 /\ success = "False") => TenPngs(fs) /\ ~HasOp(log, "rmtree")

C3_Witness ==
  pc = "exited" /\ toolExit > 0 /\ success = "False" /\ TenPngs(fs)

\* C4: when iconutil is about to be invoked in a run that found no staging
\* directory, the run has written exactly the ten table files, each with the
\* pixel dimension the table pairs with its suffix.
C4_TenFilesAtPackaging ==
  (pc = "iconutil" /\ ~startFs.icon_temp) =>
     /\ TenPngs(fs)
     /\ Len(Saves(log)) = 10
     /\ {<<"icon_", Saves(log)[k].arg, ".png">> : k \in 1..Len(Saves(log))} = TableFiles

C4_Witness ==
  /\ pc = "iconutil" /\ ~startFs.icon_temp /\ Len(Saves(log)) = 10
  /\ fs.png[<<"icon_", "32x32@2x", ".png">>].dim = 64

\* C5: once the gradient is painted, scanline 0 is the start colour and
\* scanline size-1 is within one unit of the end colour in every channel.
C5_GradientEndpoints ==
  base_icon.size = size =>
     /\ base_icon.gradient[0] = <<16, 185, 129>>
     /\ \A c \in 1..3 :
          Abs(base_icon.gradient[size - 1][c] - <<6, 182, 212>>[c]) <= 1

C5_Witness ==
  /\ pc = "overlay" /\ base_icon.size = 1024
  /\ base_icon.gradient[1023] = <<6, 182, 211>>
  /\ base_icon.gradient[512] = <<11, 183, 170>>

\* the order of operations the code follows
CodeOrder ==
  <<Step("create_gradient", ""), Step("overlay", ""),
    Step("mkdir", "icon_temp"), Step("mkdir", "AppIcon.iconset")>>
  \o [k \in 1..10 |-> Step("save", TableNames[k])]
  \o <<Step("iconutil", "AppIcon.icns"), Step("rmtree", "icon_temp")>>

\* C6 as stated: whenever the base image has been built, the staging
\* directories were created earlier in the same run.
C6_StagingBeforeBase ==
  \A k \in 1..Len(log) :
     log[k].op = "create_gradient" => \E j \in 1..(k - 1) : log[j].op = "mkdir"

\* C6 amended: the operations of a run occur in the order build base image,
\* apply overlay, create the two staging directories, write the ten PNG
\* files, invoke iconutil, remove the staging tree; iconutil is invoked only
\* after all ten files have been written.
C6_Order ==
  /\ IsPrefix(log, CodeOrder)
  /\ HasOp(log, "iconutil") => Len(Saves(log)) = 10
  /\ pc \in {"iconutil", "rmtree", "except", "return", "exit"} => Len(Saves(log)) = 10

C6_Witness ==
  /\ pc = "return" /\ log = CodeOrder /\ Len(log) = 16

\* C7: iconutil is invoked at most once per run; after it exited non-zero
\* it is not started again and the working directory no longer changes.
C7_NoRetry ==
  [][ /\ NumIconutil(log') <= 1
      /\ toolExit > 0 => (fs' = fs /\ pc' # "iconutil") ]_vars

C7_Witness ==
  /\ pc = "exited" /\ toolExit > 0 /\ success = "False"
  /\ NumIconutil(log) = 1 /\ fs = [startFs EXCEPT !.icns = fs.icns]
  /\ startFs.icon_temp

\* C8: the files are written one per table entry in table order, none
\* skipped, and each is resampled from the unchanged 1024x1024 base image.
C8_TableOrderFromBase ==
  /\ \A k \in 1..Len(Saves(log)) : Saves(log)[k].arg = TableNames[k]
  /\ Len(Saves(log)) = i - 1
  /\ pc = "iconutil" => Len(Saves(log)) = 10
  /\ ~HasOp(log, "rmtree") =>
        \A k \in 1..Len(Saves(log)) :
           /\ <<"icon_", TableNames[k], ".png">> \in DOMAIN fs.png
           /\ fs.png[<<"icon_", TableNames[k], ".png">>] =
                 [dim |-> TableDims[k], from |-> 1024, flame |-> TRUE]
  /\ pc \in {"loop", "iconutil"} => base_icon.size = 1024

C8_Witness ==
  /\ pc = "loop" /\ i = 4 /\ Len(Saves(log)) = 3
  /\ fs.png[<<"icon_", "16x16@2x", ".png">>] = fs.png[<<"icon_", "32x32", ".png">>]
  /\ fs.png[<<"icon_", "32x32", ".png">>].from = 1024

\* C9: create_iconset returns False only after a non-zero exit of iconutil;
\* a failed PNG write or a failed launch of iconutil escapes uncaught, ends
\* the process without create_iconset returning, and leaves in place the
\* staging directories and the files this run had written.
C9_OnlyToolExitCaught ==
  /\ success = "False" => toolExit > 0
  /\ pc = "except" => toolExit > 0
  /\ fault # "none" =>
        /\ fault \in {"OSError", "FileNotFoundError"}
        /\ pc = "exited" /\ success = "none"
        /\ fs.icon_temp /\ fs.iconset
        /\ \A k \in 1..Len(Saves(log)) :
              /\ <<"icon_", TableNames[k], ".png">> \in DOMAIN fs.png
              /\ fs.png[<<"icon_", TableNames[k], ".png">>].dim = TableDims[k]

C9_Witness ==
  /\ fault = "FileNotFoundError" /\ pc = "exited" /\ success = "none"
  /\ TenPngs(fs) /\ toolExit = -1

====
